---- MODULE Spec2Model ----
(***************************************************************************)
(* Document register, revision ledger, event log and transmittal engine of *)
(* the document-control application (src/database.py, src/main.py).        *)
(*                                                                         *)
(* Tables are sequences of rows; a row's id is its position (INTEGER       *)
(* PRIMARY KEY AUTOINCREMENT, no row is ever deleted).  The variables hold *)
(* the COMMITTED content of the SQLite file.  Every database function      *)
(* works on a private copy (its connection's open transaction) that        *)
(* replaces the committed content only when conn.commit() is reached; a    *)
(* function that raises never commits, and SQLite rolls its transaction    *)
(* back when the abandoned connection is finalized.                        *)
(***************************************************************************)
EXTENDS Integers, Sequences, FiniteSets, TLC

VARIABLES
    organizations,          \* table organizations
    users,                  \* table users
    sessions,               \* table sessions, a set of rows
    documents,              \* table documents
    document_revisions,     \* table document_revisions
    events,                 \* table events
    transmittals,           \* table transmittals
    transmittal_documents,  \* table transmittal_documents, insertion order
    clock,                  \* what datetime.utcnow() returns next
    uploads,                \* per uploader: position of its request in upload_document_action
    last,                   \* the last call made, its arguments and its outcome
    history                 \* the calls that returned, oldest first

tables == <<documents, document_revisions, events, transmittals, transmittal_documents>>
identity == <<organizations, users, sessions>>
vars == <<organizations, users, sessions, documents, document_revisions,
          events, transmittals, transmittal_documents, clock, uploads, last,
          history>>

----------------------------------------------------------------------------
(* Bounds of the model and the small sets the inputs are drawn from.       *)

MaxDocs == 2
MaxRevs == 4
MaxTrans == 1
MaxSendLen == 2
NumOrgs == 2

OrgIds == 1..NumOrgs
ProjectIds == {1}
DocNumbers == {"DOC-001", "DOC-002"}
TransNumbers == {"TR-1"}
\* who uploads and what the upload form holds besides doc_number
UploadForms ==
    { [uploaded_by |-> 1, title |-> "T1", doc_type |-> "DWG", status |-> "IFR",
       revision |-> "A"],
      [uploaded_by |-> 2, title |-> "T2", doc_type |-> "SPC", status |-> "IFC",
       revision |-> "B"] }
\* the users who send transmittals
Senders == {1, 2}
\* the logged-in users whose upload requests are served side by side
Uploaders == {1, 2}

\* SQL NULL in an INTEGER column; ids start at 1
NULL == 0
\* SQL NULL in events.notes
NoNotes == <<>>

----------------------------------------------------------------------------
(* The database as one value, and the outcome of a database function.      *)

DB == [documents |-> documents,
       document_revisions |-> document_revisions,
       events |-> events,
       transmittals |-> transmittals,
       transmittal_documents |-> transmittal_documents]

\* the function returned `result`; db is its connection's content at commit
Return(db, result) == [ok |-> TRUE, error |-> "", db |-> db, result |-> result]
\* the function raised; db is its connection's uncommitted content
Raise(db, error) == [ok |-> FALSE, error |-> error, db |-> db, result |-> NULL]

\* c.lastrowid after an INSERT into an AUTOINCREMENT table
lastrowid(table) == Len(table)

SeqToSet(s) == {s[i] : i \in DOMAIN s}

----------------------------------------------------------------------------
(* Schema constraints that SQLite enforces (src/database.py init_db).      *)
(* FOREIGN KEY clauses are NOT enforced: PRAGMA foreign_keys = ON is       *)
(* issued on init_db's own connection only, and get_conn() opens every     *)
(* later connection without it.                                            *)

\* the documents table declared without its UNIQUE clause
NoUniqueDocument(docs, doc_number, org_id, project_id) == TRUE

\* UNIQUE(doc_number, org_id, project_id) on documents
UniqueDocumentOk(docs, doc_number, org_id, project_id) ==
    \A i \in DOMAIN docs :
        ~(/\ docs[i].doc_number = doc_number
          /\ docs[i].org_id = org_id
          /\ docs[i].project_id = project_id)

\* the transmittal_documents table declared without its PRIMARY KEY
NoUniqueLink(links, transmittal_id, revision_id) == TRUE

\* PRIMARY KEY(transmittal_id, revision_id) on transmittal_documents
UniqueLinkOk(links, transmittal_id, revision_id) ==
    \A i \in DOMAIN links :
        ~(/\ links[i].transmittal_id = transmittal_id
          /\ links[i].revision_id = revision_id)

\* get_conn(): whether the connection enforces FOREIGN KEY clauses
ForeignKeysEnforced == FALSE

----------------------------------------------------------------------------
(* Single SQL statements.                                                  *)

\* INSERT INTO documents (...) VALUES (...): current_revision_id stays NULL
insert_document(db, doc_number, title, doc_type, status, org_id, project_id, now) ==
    [db EXCEPT !.documents = Append(@,
        [id |-> Len(@) + 1, doc_number |-> doc_number, title |-> title,
         doc_type |-> doc_type, status |-> status, org_id |-> org_id,
         project_id |-> project_id, current_revision_id |-> NULL,
         created_at |-> now])]

\* an insert that reuses the rowid of the newest revision instead of taking
\* the next one
insert_revision_replacing(db, document_id, revision, file_path, uploaded_by, now) ==
    LET revs == db.document_revisions
        n == IF revs = <<>> THEN 1 ELSE Len(revs)
        row == [id |-> n, document_id |-> document_id, revision |-> revision,
                file_path |-> file_path, uploaded_by |-> uploaded_by,
                uploaded_at |-> now]
    IN [db EXCEPT !.document_revisions =
           IF revs = <<>> THEN <<row>> ELSE [revs EXCEPT ![n] = row]]

\* INSERT INTO document_revisions (...) VALUES (...)
insert_revision(db, document_id, revision, file_path, uploaded_by, now) ==
    [db EXCEPT !.document_revisions = Append(@,
        [id |-> Len(@) + 1, document_id |-> document_id, revision |-> revision,
         file_path |-> file_path, uploaded_by |-> uploaded_by,
         uploaded_at |-> now])]

\* UPDATE documents SET current_revision_id=? WHERE id=?
update_current_revision(db, rev_id, doc_id) ==
    LET docs == db.documents
    IN [db EXCEPT !.documents =
           [i \in DOMAIN docs |->
               IF docs[i].id = doc_id
               THEN [docs[i] EXCEPT !.current_revision_id = rev_id]
               ELSE docs[i]]]

\* INSERT INTO events (...) VALUES (...)
insert_event(db, document_id, revision_id, user_id, event_type, now, notes) ==
    [db EXCEPT !.events = Append(@,
        [id |-> Len(@) + 1, document_id |-> document_id,
         revision_id |-> revision_id, user_id |-> user_id,
         event_type |-> event_type, timestamp |-> now, notes |-> notes])]

\* INSERT OR IGNORE under a UNIQUE transmittal_number: a number already
\* in the table inserts nothing
insert_transmittal_unique_number(db, transmittal_number, description, sender_org_id, recipient_org_id, created_by, now) ==
    IF \E t \in DOMAIN db.transmittals :
           db.transmittals[t].transmittal_number = transmittal_number
    THEN db
    ELSE [db EXCEPT !.transmittals = Append(@,
            [id |-> Len(@) + 1, transmittal_number |-> transmittal_number,
             description |-> description, sender_org_id |-> sender_org_id,
             recipient_org_id |-> recipient_org_id, created_by |-> created_by,
             created_at |-> now])]

\* INSERT INTO transmittals (...) VALUES (...)
insert_transmittal(db, transmittal_number, description, sender_org_id, recipient_org_id, created_by, now) ==
    [db EXCEPT !.transmittals = Append(@,
        [id |-> Len(@) + 1, transmittal_number |-> transmittal_number,
         description |-> description, sender_org_id |-> sender_org_id,
         recipient_org_id |-> recipient_org_id, created_by |-> created_by,
         created_at |-> now])]

\* INSERT INTO transmittal_documents (transmittal_id, revision_id) VALUES (?, ?)
insert_link(db, transmittal_id, revision_id) ==
    [db EXCEPT !.transmittal_documents = Append(@,
        [transmittal_id |-> transmittal_id, revision_id |-> revision_id])]

\* SELECT ... FROM <table> WHERE id=?  (fetchone(): the row, or None)
HasRow(table, id) == id \in DOMAIN table

----------------------------------------------------------------------------
(* create_document and add_document_revision.                              *)

create_document(db, now, doc_number, title, doc_type, status, org_id, project_id, revision_label, file_path, uploaded_by) ==
    IF ~UniqueDocumentOk(db.documents, doc_number, org_id, project_id)
    THEN Raise(db, "IntegrityError")
    ELSE LET d1 == insert_document(db, doc_number, title, doc_type, status,
                                   org_id, project_id, now)
             doc_id == lastrowid(d1.documents)
             d2 == insert_revision(d1, doc_id, revision_label, file_path,
                                   uploaded_by, now)
             rev_id == lastrowid(d2.document_revisions)
             d3 == update_current_revision(d2, rev_id, doc_id)
             d4 == insert_event(d3, doc_id, rev_id, uploaded_by, "Uploaded",
                                now, NoNotes)
         IN Return(d4, doc_id)

add_document_revision(db, now, document_id, revision_label, file_path, uploaded_by) ==
    IF ForeignKeysEnforced /\ ~HasRow(db.documents, document_id)
    THEN Raise(db, "IntegrityError")
    ELSE LET d1 == insert_revision(db, document_id, revision_label, file_path,
                                   uploaded_by, now)
             rev_id == lastrowid(d1.document_revisions)
             d2 == update_current_revision(d1, rev_id, document_id)
             d3 == insert_event(d2, document_id, rev_id, uploaded_by,
                                "RevisionUploaded", now, NoNotes)
         IN Return(d3, rev_id)

----------------------------------------------------------------------------
(* create_transmittal: one transaction for the transmittal row and the     *)
(* per-revision loop (link, Sent event, reconciliation into the            *)
(* recipient's register).                                                  *)

\* the note leaves the recipient organization out
SentNoteWithoutRecipient(transmittal_number, recipient_org_id) ==
    <<"Transmittal", transmittal_number, "sent">>

\* f"Transmittal {transmittal_number} sent to org {recipient_org_id}"
SentNote(transmittal_number, recipient_org_id) ==
    <<"Transmittal", transmittal_number, "sent to org", recipient_org_id>>

\* a lookup by doc_number and project alone, in whatever organization
existing_document_any_org(docs, doc_number, org_id, project_id) ==
    LET hits == {i \in DOMAIN docs :
                    /\ docs[i].doc_number = doc_number
                    /\ docs[i].project_id = project_id}
    IN IF hits = {} THEN NULL
       ELSE CHOOSE i \in hits : \A j \in hits : i <= j

\* SELECT id FROM documents WHERE doc_number=? AND org_id=? AND project_id=?
\* (fetchone(): the id of the matching row, NULL for None)
existing_document(docs, doc_number, org_id, project_id) ==
    LET hits == {i \in DOMAIN docs :
                    /\ docs[i].doc_number = doc_number
                    /\ docs[i].org_id = org_id
                    /\ docs[i].project_id = project_id}
    IN IF hits = {} THEN NULL
       ELSE CHOOSE i \in hits : \A j \in hits : i <= j

\* the new document's doc_type and status are bound in the wrong order
replicate_fields_swapped(db, now, src_doc, src_rev, recipient_org_id, created_by) ==
    LET d1 == insert_document(db, src_doc.doc_number, src_doc.title,
                              src_doc.status, src_doc.doc_type,
                              recipient_org_id, src_doc.project_id, now)
        new_doc_id == lastrowid(d1.documents)
        d2 == insert_revision(d1, new_doc_id, src_rev.revision,
                              src_rev.file_path, created_by, now)
        new_rev_id == lastrowid(d2.document_revisions)
    IN update_current_revision(d2, new_rev_id, new_doc_id)

\* the new document is logged like an upload of the recipient's own
replicate_with_uploaded_event(db, now, src_doc, src_rev, recipient_org_id, created_by) ==
    LET d1 == insert_document(db, src_doc.doc_number, src_doc.title,
                              src_doc.doc_type, src_doc.status,
                              recipient_org_id, src_doc.project_id, now)
        new_doc_id == lastrowid(d1.documents)
        d2 == insert_revision(d1, new_doc_id, src_rev.revision,
                              src_rev.file_path, created_by, now)
        new_rev_id == lastrowid(d2.document_revisions)
        d3 == update_current_revision(d2, new_rev_id, new_doc_id)
    IN insert_event(d3, new_doc_id, new_rev_id, created_by, "Uploaded", now,
                    NoNotes)

\* the branch `if existing is None`: a new document in the recipient's
\* register carrying the source's identity fields, and a copy of the revision
replicate_as_new_document(db, now, src_doc, src_rev, recipient_org_id, created_by) ==
    LET d1 == insert_document(db, src_doc.doc_number, src_doc.title,
                              src_doc.doc_type, src_doc.status,
                              recipient_org_id, src_doc.project_id, now)
        new_doc_id == lastrowid(d1.documents)
        d2 == insert_revision(d1, new_doc_id, src_rev.revision,
                              src_rev.file_path, created_by, now)
        new_rev_id == lastrowid(d2.document_revisions)
    IN update_current_revision(d2, new_rev_id, new_doc_id)

\* the copy goes to the source revision's document, not to the one found
replicate_into_source(db, now, existing_doc_id, src_rev, created_by) ==
    LET d1 == insert_revision(db, src_rev.document_id, src_rev.revision,
                              src_rev.file_path, created_by, now)
        new_rev_id == lastrowid(d1.document_revisions)
    IN update_current_revision(d1, new_rev_id, src_rev.document_id)

\* the copy is appended but the document is not repointed to it
replicate_without_repoint(db, now, existing_doc_id, src_rev, created_by) ==
    insert_revision(db, existing_doc_id, src_rev.revision, src_rev.file_path,
                    created_by, now)

\* the branch `else`: a copy of the revision appended to the document found
replicate_into_existing(db, now, existing_doc_id, src_rev, created_by) ==
    LET d1 == insert_revision(db, existing_doc_id, src_rev.revision,
                              src_rev.file_path, created_by, now)
        new_rev_id == lastrowid(d1.document_revisions)
    IN update_current_revision(d1, new_rev_id, existing_doc_id)

\* one pass of `for rev_id in document_revision_ids`
transmit_revision(db, now, trans_id, transmittal_number, recipient_org_id, created_by, rev_id) ==
    IF ~UniqueLinkOk(db.transmittal_documents, trans_id, rev_id)
    THEN Raise(db, "IntegrityError")
    ELSE
    LET d1 == insert_link(db, trans_id, rev_id)
    IN  IF ~HasRow(d1.document_revisions, rev_id)
        THEN Raise(d1, "TypeError")       \* fetchone()[0] on None
        ELSE
        LET src_rev == d1.document_revisions[rev_id]
            doc_id == src_rev.document_id
            d2 == insert_event(d1, doc_id, rev_id, created_by, "Sent", now,
                               SentNote(transmittal_number, recipient_org_id))
        IN  IF ~HasRow(d2.documents, doc_id)
            THEN Raise(d2, "TypeError")   \* unpacking None
            ELSE
            LET src_doc == d2.documents[doc_id]
                existing == existing_document(d2.documents, src_doc.doc_number,
                                              recipient_org_id, src_doc.project_id)
            IN  IF existing = NULL
                THEN IF ~UniqueDocumentOk(d2.documents, src_doc.doc_number,
                                          recipient_org_id, src_doc.project_id)
                     THEN Raise(d2, "IntegrityError")
                     ELSE Return(replicate_as_new_document(d2, now, src_doc,
                                src_rev, recipient_org_id, created_by), trans_id)
                ELSE Return(replicate_into_existing(d2, now, existing, src_rev,
                                created_by), trans_id)

RECURSIVE transmit_revisions(_, _, _, _, _, _, _)
transmit_revisions(db, now, trans_id, transmittal_number, recipient_org_id, created_by, document_revision_ids) ==
    IF document_revision_ids = <<>>
    THEN Return(db, trans_id)
    ELSE LET step == transmit_revision(db, now, trans_id, transmittal_number,
                         recipient_org_id, created_by, Head(document_revision_ids))
         IN IF step.ok
            THEN transmit_revisions(step.db, now, trans_id, transmittal_number,
                     recipient_org_id, created_by, Tail(document_revision_ids))
            ELSE step

\* a send that walks its list from the last id to the first
create_transmittal_last_first(db, now, transmittal_number, description, sender_org_id, recipient_org_id, document_revision_ids, created_by) ==
    LET d1 == insert_transmittal(db, transmittal_number, description,
                                 sender_org_id, recipient_org_id, created_by, now)
        trans_id == lastrowid(d1.transmittals)
        n == Len(document_revision_ids)
    IN transmit_revisions(d1, now, trans_id, transmittal_number,
                          recipient_org_id, created_by,
                          [i \in 1..n |-> document_revision_ids[n + 1 - i]])

create_transmittal(db, now, transmittal_number, description, sender_org_id, recipient_org_id, document_revision_ids, created_by) ==
    LET d1 == insert_transmittal(db, transmittal_number, description,
                                 sender_org_id, recipient_org_id, created_by, now)
        trans_id == lastrowid(d1.transmittals)
    IN transmit_revisions(d1, now, trans_id, transmittal_number,
                          recipient_org_id, created_by, document_revision_ids)

----------------------------------------------------------------------------
(* Read functions.                                                         *)

\* get_document / get_revision: the row (callers test HasRow first)
get_document(db, doc_id) == db.documents[doc_id]
get_revision(db, rev_id) == db.document_revisions[rev_id]

\* rows of document_revisions WHERE document_id=?
revisions_of(db, doc_id) ==
    {r \in SeqToSet(db.document_revisions) : r.document_id = doc_id}

\* rows of events WHERE document_id=?
events_of(db, doc_id) ==
    {e \in SeqToSet(db.events) : e.document_id = doc_id}

\* get_revisions_for_document: ... ORDER BY uploaded_at DESC.  SQL leaves the
\* order of rows with equal uploaded_at open, so this is the set of the
\* listings the query may return.
get_revisions_for_document(db, doc_id) ==
    LET rows == revisions_of(db, doc_id)
        n == Cardinality(rows)
    IN {l \in [1..n -> rows] :
           /\ \A i, j \in 1..n : i # j => l[i] # l[j]
           /\ \A i, j \in 1..n : i < j => l[i].uploaded_at >= l[j].uploaded_at}

\* list_documents (main.py): the label shown for a document, "" when none
current_revision_label(db, doc_id) ==
    LET rev_id == db.documents[doc_id].current_revision_id
    IN IF rev_id # NULL /\ HasRow(db.document_revisions, rev_id)
       THEN db.document_revisions[rev_id].revision
       ELSE ""

----------------------------------------------------------------------------
(* The state machine.                                                      *)

\* uuid4-named file written by the upload handler: a path no earlier upload has
NewFilePath(now) == <<"uploads", now>>

\* the connection's content reaches the file although the function raised
CommittedAnyway(res) == res.db

\* what the database file holds after the function ends: its connection's
\* content if conn.commit() was reached, the previous content otherwise
Committed(res) == IF res.ok THEN res.db ELSE DB

\* the revisions the call's connection had inserted when the call ended (for
\* create_transmittal: the revisions of its list already replicated)
Processed(res) ==
    Len(res.db.document_revisions) - Len(document_revisions)

\* what the caller sees: the arguments and the value returned, or the
\* exception raised and how far the abandoned transaction had come
Call(op, arg, res) ==
    IF res.ok
    THEN [op |-> op, ok |-> TRUE, arg |-> arg, result |-> res.result,
          error |-> "", processed |-> Processed(res)]
    ELSE [op |-> op, ok |-> FALSE, arg |-> <<>>, result |-> NULL,
          error |-> res.error, processed |-> Processed(res)]

WithinBounds(db) ==
    /\ Len(db.documents) <= MaxDocs
    /\ Len(db.document_revisions) <= MaxRevs
    /\ Len(db.transmittals) <= MaxTrans

\* a database function ends: what it committed becomes the content of the
\* file, and the caller gets its value or its exception
Finish(op, arg, res) ==
    LET r == res
        db == Committed(r)
    IN /\ documents' = db.documents
       /\ document_revisions' = db.document_revisions
       /\ events' = db.events
       /\ transmittals' = db.transmittals
       /\ transmittal_documents' = db.transmittal_documents
       /\ clock' = IF r.ok THEN clock + 1 ELSE clock
       /\ last' = Call(op, arg, r)
       /\ history' = IF r.ok THEN Append(history, Call(op, arg, r)) ELSE history

\* run a database function to its end
Execute(op, arg, res) ==
    /\ WithinBounds(res.db)
    /\ Finish(op, arg, res)

Idle == [pc |-> "idle"]

Init ==
    /\ organizations = << [id |-> 1, name |-> "Global"],
                          [id |-> 2, name |-> "A"] >>
    /\ sessions = {}
    /\ users = << [id |-> 1, email |-> "admin@example.com", role |-> "superadmin", org_id |-> 1],
                  [id |-> 2, email |-> "admin@a.example", role |-> "org_admin", org_id |-> 2],
                  [id |-> 3, email |-> "user@a.example", role |-> "user", org_id |-> 2] >>
    /\ documents = <<>>
    /\ document_revisions = <<>>
    /\ events = <<>>
    /\ transmittals = <<>>
    /\ transmittal_documents = <<>>
    /\ clock = 1
    /\ uploads = [u \in Uploaders |-> Idle]
    /\ last = [op |-> "init", ok |-> TRUE, arg |-> <<>>, result |-> NULL,
               error |-> "", processed |-> 0]
    /\ history = <<>>

\* a caller of db.create_document
CreateDocument ==
    \E doc_number \in DocNumbers, form \in UploadForms, org_id \in OrgIds,
       project_id \in ProjectIds :
        LET file_path == NewFilePath(clock)
            arg == [doc_number |-> doc_number, title |-> form.title,
                    doc_type |-> form.doc_type, status |-> form.status,
                    org_id |-> org_id, project_id |-> project_id,
                    revision_label |-> form.revision, file_path |-> file_path,
                    uploaded_by |-> form.uploaded_by]
        IN /\ Len(documents) < MaxDocs
           /\ Len(document_revisions) < MaxRevs
           /\ Execute("create_document", arg,
                      create_document(DB, clock, doc_number, form.title,
                          form.doc_type, form.status, org_id, project_id,
                          form.revision, file_path, form.uploaded_by))
           /\ UNCHANGED <<identity, uploads>>

\* a caller of db.add_document_revision; the id may name no document
AddDocumentRevision ==
    \E document_id \in 1..(Len(documents) + 1), form \in UploadForms :
        LET file_path == NewFilePath(clock)
            arg == [document_id |-> document_id, revision_label |-> form.revision,
                    file_path |-> file_path, uploaded_by |-> form.uploaded_by]
        IN /\ Len(document_revisions) < MaxRevs
           /\ Execute("add_document_revision", arg,
                      add_document_revision(DB, clock, document_id,
                          form.revision, file_path, form.uploaded_by))
           /\ UNCHANGED <<identity, uploads>>

\* the lists of revision ids a caller may pass; an id may name no revision
RevisionIdLists ==
    UNION {[1..n -> 1..(Len(document_revisions) + 1)] : n \in 0..MaxSendLen}

\* a caller of db.create_transmittal, passing its own organization and id
\* as create_transmittal_action does
CreateTransmittal ==
    \E transmittal_number \in TransNumbers, created_by \in Senders,
       recipient_org_id \in OrgIds, document_revision_ids \in RevisionIdLists :
        LET sender_org_id == users[created_by].org_id
            arg == [transmittal_number |-> transmittal_number,
                    description |-> "",
                    sender_org_id |-> sender_org_id,
                    recipient_org_id |-> recipient_org_id,
                    document_revision_ids |-> document_revision_ids,
                    created_by |-> created_by]
        IN /\ Len(transmittals) < MaxTrans
           /\ Execute("create_transmittal", arg,
                      create_transmittal(DB, clock, transmittal_number, "",
                          sender_org_id, recipient_org_id,
                          document_revision_ids, created_by))
           /\ UNCHANGED <<identity, uploads>>

\* the form a user submits
FormOf(u) == CHOOSE form \in UploadForms : form.uploaded_by = u

\* upload_document_action, `existing_docs = ...` and the loop after it:
\* the id of the first listed document with the doc_number, NULL for None
find_existing_doc(db, org_id, project_id, doc_number) ==
    existing_document(db.documents, doc_number, org_id, project_id)

\* upload_document_action up to `if existing_doc:` -- the role check and the
\* lookup, a read on a connection of its own
UploadLookup(u) ==
    \E org_id \in OrgIds, project_id \in ProjectIds, doc_number \in DocNumbers :
        /\ uploads[u].pc = "idle"
        /\ Len(document_revisions) < MaxRevs
        /\ IF users[u].role # "superadmin" /\ users[u].org_id # org_id
           THEN /\ last' = [op |-> "upload_document_action", ok |-> FALSE,
                            arg |-> <<>>, result |-> NULL, error |-> "403",
                            processed |-> 0]
                /\ UNCHANGED uploads
           ELSE /\ uploads' = [uploads EXCEPT ![u] =
                        [pc |-> "write", org_id |-> org_id,
                         project_id |-> project_id, doc_number |-> doc_number,
                         existing_doc |-> find_existing_doc(DB, org_id,
                                              project_id, doc_number)]]
                /\ last' = [op |-> "get_documents_by_org_and_project",
                            ok |-> TRUE, arg |-> <<>>, result |-> NULL,
                            error |-> "", processed |-> 0]
        /\ UNCHANGED <<identity, tables, clock, history>>

\* upload_document_action from `if existing_doc:` on -- one write
\* transaction, add_document_revision or create_document
UploadWrite(u) ==
    LET req == uploads[u]
        form == FormOf(u)
        file_path == NewFilePath(clock)
    IN /\ req.pc = "write"
       /\ IF req.existing_doc # NULL
          THEN Execute("add_document_revision",
                   [document_id |-> req.existing_doc,
                    revision_label |-> form.revision, file_path |-> file_path,
                    uploaded_by |-> u],
                   add_document_revision(DB, clock, req.existing_doc,
                       form.revision, file_path, u))
          ELSE Execute("create_document",
                   [doc_number |-> req.doc_number, title |-> form.title,
                    doc_type |-> form.doc_type, status |-> form.status,
                    org_id |-> req.org_id, project_id |-> req.project_id,
                    revision_label |-> form.revision, file_path |-> file_path,
                    uploaded_by |-> u],
                   create_document(DB, clock, req.doc_number, form.title,
                       form.doc_type, form.status, req.org_id, req.project_id,
                       form.revision, file_path, u))
       /\ uploads' = [uploads EXCEPT ![u] = Idle]
       /\ UNCHANGED identity

\* callers of the database functions, one call at a time
Next ==
    \/ CreateDocument
    \/ AddDocumentRevision
    \/ CreateTransmittal

Spec == Init /\ [][Next]_vars

\* upload requests served side by side, and transmittals
NextUpload ==
    \/ \E u \in Uploaders : UploadLookup(u)
    \/ \E u \in Uploaders : UploadWrite(u)
    \/ CreateTransmittal

SpecUpload == Init /\ [][NextUpload]_vars

\* the users who may hold a session: every row of users
SessionUsers == DOMAIN users
\* the trans_number field of the form; "" when it is left out
TransNumberInputs == TransNumbers \cup {""}
\* the recipient_org_id field of the form: 0 when it is left out or empty,
\* the id of an organization, or a number that is no organization's id
RecipientInputs == 0..(NumOrgs + 1)

\* a role check that lets every logged-in user through
AnyRole == {"superadmin", "org_admin", "user"}

\* `if user["role"] not in ["superadmin", "org_admin"]` of
\* create_transmittal_action: the roles that may send
SendRoles == {"superadmin", "org_admin"}

\* what create_transmittal_action answers without calling the database;
\* no_ids tells whether the request selected no revision
Refused(error, no_ids) ==
    [op |-> "create_transmittal_action", ok |-> FALSE,
     arg |-> [no_revision_ids |-> no_ids], result |-> NULL, error |-> error,
     processed |-> 0]

\* the field check of the form without its revision_ids part
FormIncompleteNoIds(trans_number, recipient_org_id, revision_ids) ==
    trans_number = "" \/ recipient_org_id = 0

\* `if not trans_number or not recipient_org_id or not revision_ids`
FormIncomplete(trans_number, recipient_org_id, revision_ids) ==
    trans_number = "" \/ recipient_org_id = 0 \/ revision_ids = <<>>

\* POST /transmittals/new by user u: the role check, the field check, then
\* db.create_transmittal with the user's own organization as the sender; an
\* exception of the database function is caught and shown on the form
create_transmittal_action(u) ==
    /\ Len(transmittals) < MaxTrans
    /\ \/ \E no_ids \in BOOLEAN :
            /\ \E trans_number \in TransNumberInputs,
                  recipient_org_id \in RecipientInputs,
                  revision_ids \in RevisionIdLists :
                   /\ (revision_ids = <<>>) = no_ids
                   /\ \/ users[u].role \notin SendRoles
                      \/ FormIncomplete(trans_number, recipient_org_id, revision_ids)
            /\ last' = Refused(IF users[u].role \notin SendRoles
                               THEN "403" ELSE "Complete todos los campos",
                               no_ids)
            /\ UNCHANGED <<tables, clock, history>>
       \/ \E trans_number \in TransNumberInputs,
             recipient_org_id \in RecipientInputs,
             revision_ids \in RevisionIdLists :
              /\ users[u].role \in SendRoles
              /\ ~FormIncomplete(trans_number, recipient_org_id, revision_ids)
              /\ Execute("create_transmittal",
                     [transmittal_number |-> trans_number,
                      description |-> "",
                      sender_org_id |-> users[u].org_id,
                      recipient_org_id |-> recipient_org_id,
                      document_revision_ids |-> revision_ids,
                      created_by |-> u],
                     create_transmittal(DB, clock, trans_number, "",
                         users[u].org_id, recipient_org_id, revision_ids, u))
    /\ UNCHANGED <<identity, uploads>>

\* an upload handler without its check of the caller's organization
UploadNeverDenied(user, org_id) == FALSE

\* `if user["role"] != "superadmin" and user["org_id"] != org_id` of
\* upload_document_action
UploadDenied(user, org_id) ==
    user.role # "superadmin" /\ user.org_id # org_id

\* POST .../documents/new by user u, served without another request in
\* between: the role check, the lookup, then add_document_revision on the
\* document found or create_document
upload_document_action(u) ==
    \E org_id \in OrgIds, project_id \in ProjectIds, doc_number \in DocNumbers :
        LET form == FormOf(u)
            file_path == NewFilePath(clock)
            existing_doc == find_existing_doc(DB, org_id, project_id, doc_number)
        IN /\ Len(document_revisions) < MaxRevs
           /\ IF UploadDenied(users[u], org_id)
              THEN /\ last' = [op |-> "upload_document_action", ok |-> FALSE,
                               arg |-> [caller |-> u, org_id |-> org_id],
                               result |-> NULL, error |-> "403",
                               processed |-> 0]
                   /\ UNCHANGED <<tables, clock, history>>
              ELSE IF existing_doc # NULL
              THEN Execute("add_document_revision",
                       [document_id |-> existing_doc,
                        revision_label |-> form.revision,
                        file_path |-> file_path, uploaded_by |-> u],
                       add_document_revision(DB, clock, existing_doc,
                           form.revision, file_path, u))
              ELSE Execute("create_document",
                       [doc_number |-> doc_number, title |-> form.title,
                        doc_type |-> form.doc_type, status |-> form.status,
                        org_id |-> org_id, project_id |-> project_id,
                        revision_label |-> form.revision,
                        file_path |-> file_path, uploaded_by |-> u],
                       create_document(DB, clock, doc_number, form.title,
                           form.doc_type, form.status, org_id, project_id,
                           form.revision, file_path, u))
           /\ UNCHANGED <<identity, uploads>>

\* the requests of the logged-in users, served one at a time: uploads and
\* transmittals
NextRequests ==
    \/ \E u \in Uploaders : upload_document_action(u)
    \/ \E u \in SessionUsers : create_transmittal_action(u)

SpecRequests == Init /\ [][NextRequests]_vars

\* the transmittals a run of repeated sends may reach
MaxRepeatTrans == 2

WithinRepeatBounds(db) ==
    /\ Len(db.documents) <= MaxDocs
    /\ Len(db.document_revisions) <= MaxRevs
    /\ Len(db.transmittals) <= MaxRepeatTrans

\* a caller of db.create_transmittal that may call again with the
\* arguments of an earlier call, as a retry or a double submit does
RepeatTransmittal ==
    \E transmittal_number \in TransNumbers, created_by \in Senders,
       recipient_org_id \in OrgIds, document_revision_ids \in RevisionIdLists :
        LET sender_org_id == users[created_by].org_id
            arg == [transmittal_number |-> transmittal_number,
                    description |-> "",
                    sender_org_id |-> sender_org_id,
                    recipient_org_id |-> recipient_org_id,
                    document_revision_ids |-> document_revision_ids,
                    created_by |-> created_by]
            res == create_transmittal(DB, clock, transmittal_number, "",
                       sender_org_id, recipient_org_id,
                       document_revision_ids, created_by)
        IN /\ Len(transmittals) < MaxRepeatTrans
           /\ WithinRepeatBounds(res.db)
           /\ Finish("create_transmittal", arg, res)
           /\ UNCHANGED <<identity, uploads>>

\* uploads of new documents and sends, one call at a time, a send possibly
\* repeated
NextRepeat ==
    \/ CreateDocument
    \/ RepeatTransmittal

SpecRepeat == Init /\ [][NextRepeat]_vars

----------------------------------------------------------------------------
(* Write transactions statement by statement.  sqlite3.connect() gives     *)
(* every call a connection of its own; its first INSERT opens a            *)
(* transaction and takes the write lock of the database file, which it     *)
(* keeps until conn.commit().  While the lock is held another connection's *)
(* first INSERT waits, and raises OperationalError when the wait times     *)
(* out; SELECTs of other connections read the committed content.           *)

\* the positions of a request whose connection has an open write transaction
InTransaction == {"inserted", "repointed", "logged", "sending"}

\* no write lock: a connection writes whatever the others are doing
NeverLocked(u) == FALSE

\* another connection holds the write lock of the database file
LockedByOther(u) ==
    \E v \in Uploaders \ {u} : uploads[v].pc \in InTransaction

\* the revisions the requests under way are still going to commit
Growth(req) == IF req.pc = "idle" THEN 0 ELSE req.grows

\* a caller of db.create_document while no other request is under way
CreateDocumentUnlocked ==
    /\ \A u \in Uploaders : uploads[u].pc = "idle"
    /\ CreateDocument

\* add_document_revision is called for an existing document:
\* `now = datetime.utcnow().isoformat()` and `conn = get_conn()`; the file
\* was saved under a uuid4 name no other request has
CallAddRevision(u) ==
    \E document_id \in DOMAIN documents :
        /\ uploads[u].pc = "idle"
        /\ Len(document_revisions)
               + Growth(uploads[1]) + Growth(uploads[2]) < MaxRevs
        /\ uploads' = [uploads EXCEPT ![u] =
                [pc |-> "called", op |-> "add_document_revision",
                 document_id |-> document_id, now |-> clock,
                 revision_label |-> FormOf(u).revision,
                 file_path |-> NewFilePath(Cardinality(Uploaders) * clock + u),
                 grows |-> 1]]
        /\ UNCHANGED <<identity, tables, clock, last, history>>

\* the first INSERT of add_document_revision: it waits while another
\* connection holds the write lock, then works on the committed content
InsertRevision(u) ==
    LET req == uploads[u]
    IN /\ req.pc = "called"
       /\ req.op = "add_document_revision"
       /\ ~LockedByOther(u)
       /\ uploads' = [uploads EXCEPT ![u] =
               [req EXCEPT !.pc = "inserted"] @@
               [conn |-> insert_revision(DB, req.document_id,
                             req.revision_label, req.file_path, u, req.now)]]
       /\ UNCHANGED <<identity, tables, clock, last, history>>

\* the wait for the write lock times out: OperationalError, database is
\* locked; nothing was written
DatabaseIsLocked(u) ==
    /\ uploads[u].pc = "called"
    /\ LockedByOther(u)
    /\ uploads' = [uploads EXCEPT ![u] = Idle]
    /\ last' = [op |-> uploads[u].op, ok |-> FALSE, arg |-> <<>>,
                result |-> NULL, error |-> "OperationalError",
                processed |-> 0]
    /\ UNCHANGED <<identity, tables, clock, history>>

\* `UPDATE documents SET current_revision_id=? WHERE id=?` on the connection
RepointDocument(u) ==
    LET req == uploads[u]
    IN /\ req.pc = "inserted"
       /\ uploads' = [uploads EXCEPT ![u] =
               [req EXCEPT !.pc = "repointed",
                           !.conn = update_current_revision(req.conn,
                                        lastrowid(req.conn.document_revisions),
                                        req.document_id)]]
       /\ UNCHANGED <<identity, tables, clock, last, history>>

\* `INSERT INTO events ... "RevisionUploaded"` on the connection
LogRevisionUploaded(u) ==
    LET req == uploads[u]
    IN /\ req.pc = "repointed"
       /\ uploads' = [uploads EXCEPT ![u] =
               [req EXCEPT !.pc = "logged",
                           !.conn = insert_event(req.conn, req.document_id,
                                        lastrowid(req.conn.document_revisions),
                                        u, "RevisionUploaded", req.now,
                                        NoNotes)]]
       /\ UNCHANGED <<identity, tables, clock, last, history>>

\* conn.commit() of add_document_revision: the connection's content becomes
\* the content of the file and the lock is released
CommitRevision(u) ==
    LET req == uploads[u]
    IN /\ req.pc = "logged"
       /\ Finish("add_document_revision",
                 [document_id |-> req.document_id,
                  revision_label |-> req.revision_label,
                  file_path |-> req.file_path, uploaded_by |-> u],
                 Return(req.conn, lastrowid(req.conn.document_revisions)))
       /\ uploads' = [uploads EXCEPT ![u] = Idle]
       /\ UNCHANGED identity

\* the lists of ids of existing revisions a transmittal form can submit
ExistingRevisionIdLists ==
    UNION {[1..n -> DOMAIN document_revisions] : n \in 1..MaxSendLen}

\* create_transmittal is called: `now = datetime.utcnow().isoformat()` and
\* `conn = get_conn()`
CallCreateTransmittal(u) ==
    \E transmittal_number \in TransNumbers, recipient_org_id \in OrgIds,
       document_revision_ids \in ExistingRevisionIdLists :
        /\ uploads[u].pc = "idle"
        /\ \A v \in Uploaders : uploads[v].pc # "idle" => uploads[v].op # "create_transmittal"
        /\ Len(transmittals) < MaxTrans
        /\ Len(document_revisions) + Growth(uploads[1]) + Growth(uploads[2])
               + Len(document_revision_ids) <= MaxRevs
        /\ Len(create_transmittal(DB, clock, transmittal_number, "",
                   users[u].org_id, recipient_org_id, document_revision_ids,
                   u).db.documents) <= MaxDocs
        /\ uploads' = [uploads EXCEPT ![u] =
                [pc |-> "called", op |-> "create_transmittal",
                 transmittal_number |-> transmittal_number,
                 recipient_org_id |-> recipient_org_id,
                 document_revision_ids |-> document_revision_ids,
                 now |-> clock, grows |-> Len(document_revision_ids)]]
        /\ UNCHANGED <<identity, tables, clock, last, history>>

\* `INSERT INTO transmittals`, the first INSERT of create_transmittal: it
\* waits while another connection holds the write lock
InsertTransmittal(u) ==
    LET req == uploads[u]
    IN /\ req.pc = "called"
       /\ req.op = "create_transmittal"
       /\ ~LockedByOther(u)
       /\ uploads' = [uploads EXCEPT ![u] =
               [req EXCEPT !.pc = "sending"] @@
               [conn |-> insert_transmittal(DB, req.transmittal_number, "",
                             users[u].org_id, req.recipient_org_id, u,
                             req.now)]]
       /\ UNCHANGED <<identity, tables, clock, last, history>>

\* the loop of create_transmittal on the connection, then conn.commit();
\* an exception in the loop abandons the connection and its transaction
CommitTransmittal(u) ==
    LET req == uploads[u]
    IN /\ req.pc = "sending"
       /\ Finish("create_transmittal",
                 [transmittal_number |-> req.transmittal_number,
                  description |-> "",
                  sender_org_id |-> users[u].org_id,
                  recipient_org_id |-> req.recipient_org_id,
                  document_revision_ids |-> req.document_revision_ids,
                  created_by |-> u],
                 transmit_revisions(req.conn, req.now,
                     lastrowid(req.conn.transmittals), req.transmittal_number,
                     req.recipient_org_id, u, req.document_revision_ids))
       /\ uploads' = [uploads EXCEPT ![u] = Idle]
       /\ UNCHANGED identity

\* calls of the database functions from requests served side by side, each
\* on its own connection
NextStatements ==
    \/ CreateDocumentUnlocked
    \/ \E u \in Uploaders : CallAddRevision(u)
    \/ \E u \in Uploaders : InsertRevision(u)
    \/ \E u \in Uploaders : RepointDocument(u)
    \/ \E u \in Uploaders : LogRevisionUploaded(u)
    \/ \E u \in Uploaders : CommitRevision(u)
    \/ \E u \in Uploaders : CallCreateTransmittal(u)
    \/ \E u \in Uploaders : InsertTransmittal(u)
    \/ \E u \in Uploaders : CommitTransmittal(u)
    \/ \E u \in Uploaders : DatabaseIsLocked(u)

SpecStatements == Init /\ [][NextStatements]_vars

----------------------------------------------------------------------------
(* The identity store: organizations and users.                            *)

\* the rows the tables organizations and users may reach
MaxOrgs == 3
MaxUsers == 5

\* the name field of the organization form; "" when it is left out
OrgNameInputs == {"", "Global", "A", "B"}
\* the email field of the user form
EmailInputs == {"admin@example.com", "new@a.example", "new@b.example"}
\* the role field of the user form; "user" when it is left out
RoleInputs == {"superadmin", "org_admin", "user"}

\* a table organizations without the UNIQUE constraint on name
NoUniqueName(orgs, name) == TRUE

\* organizations.name TEXT UNIQUE NOT NULL
UniqueNameOk(orgs, name) == \A o \in DOMAIN orgs : orgs[o].name # name

\* users.email TEXT UNIQUE NOT NULL
UniqueEmailOk(us, email) == \A i \in DOMAIN us : us[i].email # email

\* db.create_organization: one INSERT, then commit
create_organization(orgs, name) ==
    IF ~UniqueNameOk(orgs, name)
    THEN Raise(orgs, "IntegrityError")
    ELSE Return(Append(orgs, [id |-> Len(orgs) + 1, name |-> name]),
                Len(orgs) + 1)

\* db.create_user: one INSERT, then commit
create_user(us, email, role, org_id) ==
    IF ~UniqueEmailOk(us, email)
    THEN Raise(us, "IntegrityError")
    ELSE Return(Append(us, [id |-> Len(us) + 1, email |-> email,
                            role |-> role, org_id |-> org_id]),
                Len(us) + 1)

\* what a handler of the identity store answers
Answer(op, arg, ok, result, error) ==
    [op |-> op, ok |-> ok, arg |-> arg, result |-> result, error |-> error,
     processed |-> 0]

\* POST /organizations/new by user u
create_organization_action(u) ==
    \E name \in OrgNameInputs :
        LET arg == [caller |-> u, name |-> name]
            res == create_organization(organizations, name)
            op == "create_organization_action"
        IN /\ IF users[u].role \notin {"superadmin"}
              THEN /\ last' = Answer(op, arg, FALSE, NULL, "403")
                   /\ UNCHANGED <<organizations, history>>
              ELSE IF name = ""
              THEN /\ last' = Answer(op, arg, FALSE, NULL, "Debe ingresar un nombre")
                   /\ UNCHANGED <<organizations, history>>
              ELSE IF ~res.ok
              THEN /\ last' = Answer(op, arg, FALSE, NULL,
                                     "Nombre de organización ya existe")
                   /\ UNCHANGED <<organizations, history>>
              ELSE /\ Len(organizations) < MaxOrgs
                   /\ organizations' = res.db
                   /\ last' = Answer(op, arg, TRUE, res.result, "")
                   /\ history' = Append(history, last')
           /\ UNCHANGED <<users, sessions, tables, clock, uploads>>

\* no check of the role an organization administrator asks for
RoleNotRestricted(caller_role, role_field) == FALSE

\* `if user["role"] == "org_admin" and role_field == "org_admin"`
RoleRestricted(caller_role, role_field) ==
    caller_role = "org_admin" /\ role_field = "org_admin"

\* `if role_field not in ["org_admin", "user"]: role_field = "user"`
GrantedRole(role_field) ==
    IF role_field \notin {"org_admin", "user"} THEN "user" ELSE role_field

\* POST /organizations/{org_id}/users/new by user u; the org_id of the URL
\* may name no organization
create_user_action(u) ==
    \E org_id \in 1..(Len(organizations) + 1), email \in EmailInputs,
       role_field \in RoleInputs :
        LET arg == [caller |-> u, org_id |-> org_id, email |-> email,
                    role_field |-> role_field]
            res == create_user(users, email, GrantedRole(role_field), org_id)
            op == "create_user_action"
        IN /\ Len(users) < MaxUsers
           /\ IF ~(\/ users[u].role = "superadmin"
                   \/ (users[u].role = "org_admin" /\ users[u].org_id = org_id))
              THEN /\ last' = Answer(op, arg, FALSE, NULL, "403")
                   /\ UNCHANGED <<users, history>>
              ELSE IF RoleRestricted(users[u].role, role_field)
              THEN /\ last' = Answer(op, arg, FALSE, NULL, "403")
                   /\ UNCHANGED <<users, history>>
              ELSE IF ~res.ok
              THEN /\ last' = Answer(op, arg, FALSE, NULL,
                          "No se pudo crear el usuario. Puede que el email ya exista.")
                   /\ UNCHANGED <<users, history>>
              ELSE /\ users' = res.db
                   /\ last' = Answer(op, arg, TRUE, res.result, "")
                   /\ history' = Append(history, last')
           /\ UNCHANGED <<organizations, sessions, tables, clock, uploads>>

\* the requests of the logged-in users that write the identity store,
\* served one at a time
NextIdentity ==
    \/ \E u \in DOMAIN users : create_organization_action(u)
    \/ \E u \in DOMAIN users : create_user_action(u)

SpecIdentity == Init /\ [][NextIdentity]_vars

----------------------------------------------------------------------------
(* Sessions: login, the session check of every authenticated route, and    *)
(* logout.  In this part one unit of the clock is one hour.                *)

\* the sessions a run may create, and the last hour of the clock
MaxSessions == 2
MaxClock == 5

\* `expires_minutes: int = 120`, in hours
expires_minutes == 2

\* the session_id cookie of a request: 0 for no cookie, or an id that may
\* name no session
Cookies == 0..MaxSessions
\* the email field of the login form
LoginEmails == {"admin@example.com", "admin@a.example", "nobody@example.com"}

\* uuid.uuid4().hex: an id no session had before
uuid4 ==
    1 + Cardinality({i \in DOMAIN history : history[i].op = "create_session"})

\* get_user_by_email: SELECT * FROM users WHERE email=?  (the rows found)
get_user_by_email(email) == {u \in SeqToSet(users) : u.email = email}

\* create_session: INSERT INTO sessions (id, user_id, expires_at)
create_session(rows, session_id, user_id, now) ==
    rows \cup {[id |-> session_id, user_id |-> user_id,
                expires_at |-> now + expires_minutes]}

\* get_session: SELECT * FROM sessions WHERE id=?  (the rows found)
get_session(rows, session_id) == {s \in rows : s.id = session_id}

\* a DELETE that removes no row
delete_nothing(rows, session_id) == rows

\* delete_session: DELETE FROM sessions WHERE id=?
delete_session(rows, session_id) == {s \in rows : s.id # session_id}

\* cleanup_sessions: DELETE FROM sessions WHERE expires_at < ?
cleanup_sessions(rows, now) == {s \in rows : ~(s.expires_at < now)}

\* the ids of the sessions a logout or an expired check has deleted
Deleted ==
    {history[i].arg.session_id :
        i \in {j \in DOMAIN history : history[j].op = "delete_session"}}

\* the deletion of session_id enters the history once, when a row goes
Deletion(session_id, by) ==
    IF get_session(sessions, session_id) # {} /\ session_id \notin Deleted
    THEN Append(history, Answer("delete_session",
                    [session_id |-> session_id, by |-> by], TRUE, NULL, ""))
    ELSE history

\* POST /login
login_action ==
    \E email \in LoginEmails, password_ok \in BOOLEAN :
        LET found == get_user_by_email(email)
            arg == [email |-> email, at |-> clock]
        IN /\ IF found = {} \/ ~password_ok
              THEN /\ last' = Answer("login_action", arg, FALSE, NULL,
                                     "Credenciales inválidas")
                   /\ UNCHANGED <<sessions, history>>
              ELSE LET user == CHOOSE u \in found : TRUE
                   IN /\ uuid4 <= MaxSessions
                      /\ sessions' = create_session(sessions, uuid4, user.id, clock)
                      /\ last' = Answer("create_session", arg, TRUE, uuid4, "")
                      /\ history' = Append(history, last')
           /\ UNCHANGED <<organizations, users, tables, clock, uploads>>

\* get_current_user, the dependency of every authenticated route, for a
\* request that carries the cookie
get_current_user(cookie) ==
    LET arg == [session_id |-> cookie, at |-> clock]
        found == get_session(sessions, cookie)
        redirect == Answer("get_current_user", arg, FALSE, NULL, "302 /login")
    IN /\ IF cookie = 0 \/ found = {}
          THEN /\ last' = redirect
               /\ UNCHANGED <<sessions, history>>
          ELSE LET session == CHOOSE s \in found : TRUE
               IN IF session.expires_at < clock
                  THEN /\ sessions' = delete_session(sessions, cookie)
                       /\ history' = Deletion(cookie, "expired")
                       /\ last' = redirect
                  ELSE IF ~HasRow(users, session.user_id)
                  THEN /\ sessions' = delete_session(sessions, cookie)
                       /\ history' = Deletion(cookie, "no user")
                       /\ last' = redirect
                  ELSE /\ last' = Answer("get_current_user", arg, TRUE,
                                         session.user_id, "")
                       /\ UNCHANGED <<sessions, history>>
       /\ UNCHANGED <<organizations, users, tables, clock, uploads>>

\* GET /logout
logout(cookie) ==
    /\ IF cookie # 0
       THEN /\ sessions' = delete_session(sessions, cookie)
            /\ history' = Deletion(cookie, "logout")
       ELSE UNCHANGED <<sessions, history>>
    /\ last' = Answer("logout", [session_id |-> cookie, at |-> clock], TRUE,
                      NULL, "")
    /\ UNCHANGED <<organizations, users, tables, clock, uploads>>

\* the application starts again: db.cleanup_sessions()
startup_event ==
    /\ sessions' = cleanup_sessions(sessions, clock)
    /\ last' = Answer("startup_event", [at |-> clock], TRUE, NULL, "")
    /\ UNCHANGED <<organizations, users, tables, clock, uploads, history>>

\* an hour passes
Tick ==
    /\ clock < MaxClock
    /\ clock' = clock + 1
    /\ UNCHANGED <<identity, tables, uploads, last, history>>

NextSessions ==
    \/ login_action
    \/ \E cookie \in Cookies : get_current_user(cookie)
    \/ \E cookie \in Cookies : logout(cookie)
    \/ startup_event
    \/ Tick

SpecSessions == Init /\ [][NextSessions]_vars

\* table projects as db.create_project left it before the first upload: the
\* one project of ProjectIds, created for organization 1
projects == << [id |-> 1, name |-> "P1", org_id |-> 1] >>

\* get_project: SELECT * FROM projects WHERE id=?  (the rows found)
get_project(project_id) == {p \in SeqToSet(projects) : p.id = project_id}

----------------------------------------------------------------------------
(* Properties.  `last` names the call that produced the current state, so  *)
(* a state predicate on `last` speaks of the state right after that call;  *)
(* a step formula compares it with the state right before.                 *)

DocIds == DOMAIN documents
RevIds == DOMAIN document_revisions

\* ids of the revisions whose document_id is d
RevIdsOf(d) == {r \in RevIds : document_revisions[r].document_id = d}

IsCall(call, op) == call.op = op
Returned(call, op) == call.op = op /\ call.ok
Raised(call, op) == call.op = op /\ ~call.ok

\* C1: in every committed state each document's current_revision_id is the
\* id of the most recently appended revision of that same document (not
\* NULL, not a revision of another document, not an older revision).
C1_CurrentIsLatestRevision ==
    \A d \in DocIds :
        /\ documents[d].current_revision_id \in RevIdsOf(d)
        /\ \A r \in RevIdsOf(d) : r <= documents[d].current_revision_id

\* a send has just appended a copy to a document that already had revisions
C1_Witness ==
    /\ Returned(last, "create_transmittal")
    /\ \E d \in DocIds :
        /\ Cardinality(RevIdsOf(d)) >= 2
        /\ documents[d].current_revision_id = Len(document_revisions)
        /\ document_revisions[Len(document_revisions)].uploaded_at
               = transmittals[last.result].created_at

\* C2: a create_transmittal call that raises leaves every table as it was
\* before the call: no transmittal, link, Sent event, replicated document or
\* replicated revision of that call is committed.
C2_FailedSendChangesNothing ==
    [][Raised(last', "create_transmittal") => UNCHANGED tables]_vars

\* a send raised on a missing revision id after it had linked and
\* replicated an earlier revision of its list
C2_Witness ==
    /\ Raised(last, "create_transmittal")
    /\ last.error = "TypeError"
    /\ last.processed >= 1

\* C3: every revision of the ledger has an event with its id and its
\* document's id.
C3_EveryRevisionHasEvent ==
    \A r \in RevIds :
        \E e \in DOMAIN events :
            /\ events[e].revision_id = r
            /\ events[e].document_id = document_revisions[r].document_id

\* C4: add_document_revision on a document id that names no document raises
\* and changes nothing.
C4_AddRevisionToMissingDocumentFails ==
    [][IsCall(last', "add_document_revision") =>
          IF last'.ok
          THEN last'.arg.document_id \in DocIds
          ELSE UNCHANGED tables]_vars

\* the identity key of a create_document call is taken by a document
KeyTaken(arg) ==
    \E d \in DocIds :
        /\ documents[d].doc_number = arg.doc_number
        /\ documents[d].org_id = arg.org_id
        /\ documents[d].project_id = arg.project_id

\* C5: create_document on a (doc_number, org_id, project_id) that exists
\* raises IntegrityError (the conflict error) and leaves every table
\* unchanged; so a call that returns had a key no document held.
C5_DuplicateCreateFails ==
    [][IsCall(last', "create_document") =>
          IF last'.ok
          THEN ~KeyTaken(last'.arg)
          ELSE last'.error = "IntegrityError" /\ UNCHANGED tables]_vars

\* create_document has just raised on a key that is taken
C5_Witness ==
    /\ Raised(last, "create_document")
    /\ last.error = "IntegrityError"
    /\ documents # <<>>

SameKey(a, b) ==
    /\ a.doc_number = b.doc_number
    /\ a.org_id = b.org_id
    /\ a.project_id = b.project_id

\* the document was inserted by create_transmittal call t
CreatedBySend(d, t) == documents[d].created_at = transmittals[t].created_at

\* C6: no two documents share (doc_number, org_id, project_id), whether
\* they were created by an upload, by an upload racing with another write,
\* or by the reconciliation of a send.
C6_DocumentKeyUnique ==
    \A i, j \in DocIds : i # j => ~SameKey(documents[i], documents[j])

\* an upload that found no document at its lookup has just been refused by
\* the UNIQUE constraint, the key having been taken in between, and a
\* document created by a send is in the register
C6_Witness ==
    /\ Raised(last, "create_document")
    /\ last.error = "IntegrityError"
    /\ \E d \in DocIds, t \in DOMAIN transmittals : CreatedBySend(d, t)

\* events of type Uploaded on document d
UploadedEvents(d) ==
    {e \in DOMAIN events :
        events[e].document_id = d /\ events[e].event_type = "Uploaded"}

\* C7: right after create_document returns, the new document's current
\* revision label is the label supplied, the document has exactly one
\* revision, and exactly one Uploaded event exists for it, referencing that
\* revision and the uploader.
C7_CreateDocumentPostcondition ==
    Returned(last, "create_document") =>
        LET d == last.result
        IN /\ current_revision_label(DB, d) = last.arg.revision_label
           /\ Cardinality(RevIdsOf(d)) = 1
           /\ Cardinality(UploadedEvents(d)) = 1
           /\ \A e \in UploadedEvents(d) :
                 /\ events[e].revision_id = documents[d].current_revision_id
                 /\ events[e].user_id = last.arg.uploaded_by

\* the send with these arguments replicated a revision into document d
SendTargets(arg, d) ==
    \E k \in DOMAIN arg.document_revision_ids :
        LET src == documents[document_revisions[arg.document_revision_ids[k]].document_id]
        IN /\ src.doc_number = documents[d].doc_number
           /\ src.project_id = documents[d].project_id
           /\ arg.recipient_org_id = documents[d].org_id

\* positions in history, after position i, of the add_document_revision
\* calls on document d
AddCallsAfter(i, d) ==
    {j \in DOMAIN history :
        /\ j > i
        /\ history[j].op = "add_document_revision"
        /\ history[j].arg.document_id = d}

SentToAfter(i, d) ==
    \E j \in DOMAIN history :
        /\ j > i
        /\ history[j].op = "create_transmittal"
        /\ SendTargets(history[j].arg, d)

Max(S) == CHOOSE x \in S : \A y \in S : y <= x

\* C8: after create_document and then N add_document_revision calls on the
\* document (and no send into it), every listing of its revisions has N+1
\* entries, most recently appended first, and the current revision label is
\* the label of the most recent of those calls.
C8_RevisionListAfterNAdds ==
    \A i \in DOMAIN history :
        (history[i].op = "create_document" /\ ~SentToAfter(i, history[i].result)) =>
            LET d == history[i].result
                adds == AddCallsAfter(i, d)
                mostRecent == history[Max(adds \cup {i})]
            IN /\ \A l \in get_revisions_for_document(DB, d) :
                    /\ Len(l) = Cardinality(adds) + 1
                    /\ \A a, b \in DOMAIN l : a < b => l[a].id > l[b].id
               /\ current_revision_label(DB, d) = mostRecent.arg.revision_label

\* the last call was a create_transmittal that returned, with n revision ids
SentN(call, n) ==
    /\ Returned(call, "create_transmittal")
    /\ Len(call.arg.document_revision_ids) = n

\* C9 as claimed: after a send of the single revision r to R returns, R's
\* register holds a document with the doc_number, title, doc_type, status
\* and project of r's document, whose current revision has r's label and
\* file reference.
C9_SendRoundTrip ==
    SentN(last, 1) =>
        LET r == document_revisions[last.arg.document_revision_ids[1]]
            src == documents[r.document_id]
        IN \E d \in DocIds :
              /\ documents[d].org_id = last.arg.recipient_org_id
              /\ documents[d].doc_number = src.doc_number
              /\ documents[d].project_id = src.project_id
              /\ documents[d].title = src.title
              /\ documents[d].doc_type = src.doc_type
              /\ documents[d].status = src.status
              /\ current_revision_label(DB, d) = r.revision
              /\ document_revisions[documents[d].current_revision_id].file_path
                     = r.file_path

\* ids of the documents of `docs` with the key
WithKey(docs, doc_number, org_id, project_id) ==
    {d \in DOMAIN docs :
        /\ docs[d].doc_number = doc_number
        /\ docs[d].org_id = org_id
        /\ docs[d].project_id = project_id}

\* C9 amended: after a send of the single revision r to R returns, R's
\* register holds a document with the doc_number and project of r's
\* document whose current revision has r's label and file reference; its
\* title, doc_type and status are those of r's document when the send
\* created it, and those it had before when R already held a document with
\* that doc_number in that project.
C9_SendRoundTripAmended ==
    [][SentN(last', 1) =>
          LET arg == last'.arg
              r == document_revisions[arg.document_revision_ids[1]]
              src == documents[r.document_id]
              before == WithKey(documents, src.doc_number,
                                arg.recipient_org_id, src.project_id)
          IN \E d \in WithKey(documents', src.doc_number,
                              arg.recipient_org_id, src.project_id) :
                LET doc == documents'[d]
                    cur == document_revisions'[doc.current_revision_id]
                IN /\ cur.document_id = d
                   /\ cur.revision = r.revision
                   /\ cur.file_path = r.file_path
                   /\ IF before = {}
                      THEN /\ d \notin DocIds
                           /\ doc.title = src.title
                           /\ doc.doc_type = src.doc_type
                           /\ doc.status = src.status
                      ELSE /\ d \in before
                           /\ doc.title = documents[d].title
                           /\ doc.doc_type = documents[d].doc_type
                           /\ doc.status = documents[d].status]_vars

\* a single revision has just been sent to a recipient that already held a
\* document with that doc_number in that project under another title
C9_Witness ==
    /\ SentN(last, 1)
    /\ LET r == document_revisions[last.arg.document_revision_ids[1]]
           src == documents[r.document_id]
       IN \E d \in WithKey(documents, src.doc_number,
                           last.arg.recipient_org_id, src.project_id) :
             /\ ~CreatedBySend(d, last.result)
             /\ documents[d].title # src.title
             /\ documents[d].current_revision_id = Len(document_revisions)

\* C10: one send of two revisions r1, r2 (both in the ledger, with their
\* documents, when the send is called) whose documents share doc_number and project, to a recipient
\* holding no such document, creates exactly one document, in the
\* recipient's register, and that document receives the copies of both
\* revisions.
C10_OneDocumentPerIdentity ==
    [][(/\ SentN(last', 2)
        /\ \A k \in 1..2 :
              /\ last'.arg.document_revision_ids[k] \in RevIds
              /\ document_revisions[last'.arg.document_revision_ids[k]].document_id
                     \in DocIds
        /\ LET arg == last'.arg
               s1 == documents[document_revisions[arg.document_revision_ids[1]].document_id]
               s2 == documents[document_revisions[arg.document_revision_ids[2]].document_id]
           IN /\ s1.doc_number = s2.doc_number
              /\ s1.project_id = s2.project_id
              /\ WithKey(documents, s1.doc_number, arg.recipient_org_id,
                         s1.project_id) = {})
       =>
          LET arg == last'.arg
              r1 == document_revisions[arg.document_revision_ids[1]]
              r2 == document_revisions[arg.document_revision_ids[2]]
              s1 == documents[r1.document_id]
              n == Len(documents')
              m == Len(document_revisions)
          IN /\ n = Len(documents) + 1
             /\ documents'[n].org_id = arg.recipient_org_id
             /\ documents'[n].doc_number = s1.doc_number
             /\ documents'[n].project_id = s1.project_id
             /\ Len(document_revisions') = m + 2
             /\ document_revisions'[m + 1].document_id = n
             /\ document_revisions'[m + 2].document_id = n
             /\ document_revisions'[m + 1].revision = r1.revision
             /\ document_revisions'[m + 1].file_path = r1.file_path
             /\ document_revisions'[m + 2].revision = r2.revision
             /\ document_revisions'[m + 2].file_path = r2.file_path]_vars

\* a send of two revisions that were both in the ledger before it has just
\* created one document in the recipient's register and put both copies
\* into it
C10_Witness ==
    /\ SentN(last, 2)
    /\ \A k \in 1..2 :
          last.arg.document_revision_ids[k] <= Len(document_revisions) - 2
    /\ \E d \in DocIds :
          /\ CreatedBySend(d, last.result)
          /\ documents[d].org_id = last.arg.recipient_org_id
          /\ RevIdsOf(d) = {Len(document_revisions) - 1, Len(document_revisions)}

\* positions in history of the sends of the single revision list <<r>>, r a
\* revision of document s, to recipient R
SingleSendsOf(s, R) ==
    {j \in DOMAIN history :
        /\ history[j].op = "create_transmittal"
        /\ Len(history[j].arg.document_revision_ids) = 1
        /\ history[j].arg.recipient_org_id = R
        /\ document_revisions[history[j].arg.document_revision_ids[1]].document_id = s}

Min(S) == CHOOSE x \in S : \A y \in S : x <= y

\* the elements of a set of numbers in increasing order
Ascending(S) ==
    CHOOSE f \in [1..Cardinality(S) -> S] :
        \A a, b \in 1..Cardinality(S) : a < b => f[a] < f[b]

\* document d received nothing but the sends at positions `sends`: no
\* add_document_revision on it and no other send into it
OnlySentTo(d, sends) ==
    \A j \in DOMAIN history :
        /\ history[j].op = "add_document_revision" =>
               ~(j > Min(sends) /\ history[j].arg.document_id = d)
        /\ (history[j].op = "create_transmittal" /\ j \notin sends) =>
               ~SendTargets(history[j].arg, d)

\* C11: after k successful sends, each of one revision of the same source
\* document s to the same recipient R whose register held no document with
\* s's doc_number and project before the first of them (and nothing else
\* written into that document), R holds exactly one such document, it has
\* exactly k revisions, their labels in send order, and its current revision
\* is the copy made by the last send.
C11_SequentialSendsAccumulate ==
    \A s \in DocIds, R \in OrgIds :
        LET sends == SingleSendsOf(s, R)
            mine == WithKey(documents, documents[s].doc_number, R,
                            documents[s].project_id)
        IN (/\ sends # {}
            /\ \E d \in mine : CreatedBySend(d, history[Min(sends)].result)
            /\ \A d \in mine : OnlySentTo(d, sends))
           => /\ Cardinality(mine) = 1
              /\ \A d \in mine :
                    LET revs == Ascending(RevIdsOf(d))
                        order == Ascending(sends)
                    IN /\ Len(revs) = Cardinality(sends)
                       /\ \A i \in DOMAIN revs :
                             i \in DOMAIN order =>
                               document_revisions[revs[i]].revision =
                                 document_revisions[
                                   history[order[i]].arg.document_revision_ids[1]].revision
                       /\ documents[d].current_revision_id = revs[Len(revs)]

\* C12: create_transmittal raises whenever an id of its list names no
\* revision of the ledger at the time of the call, at whatever position; so
\* a call that returns was given ids of existing revisions only.
C12_SendOfMissingRevisionFails ==
    [][Returned(last', "create_transmittal") =>
          \A k \in DOMAIN last'.arg.document_revision_ids :
              last'.arg.document_revision_ids[k] \in RevIds]_vars

\* the transmittal has at least one linked revision
HasLink(links, t) == \E l \in DOMAIN links : links[l].transmittal_id = t

\* C13: a send request that selects no revision is refused and writes
\* nothing, so create_transmittal is never run with an empty list and every
\* committed transmittal has at least one linked revision.
C13_NoTransmittalWithoutRevision ==
    [][/\ Returned(last', "create_transmittal") =>
              last'.arg.document_revision_ids # <<>>
       /\ (IsCall(last', "create_transmittal_action")
             /\ last'.arg.no_revision_ids) => UNCHANGED tables
       /\ \A t \in DOMAIN transmittals' : HasLink(transmittal_documents', t)]_vars

\* an authorised sender's request that selected no revision has just been
\* refused by the field check, with documents in the register to select from
C13_Witness ==
    /\ IsCall(last, "create_transmittal_action")
    /\ last.error = "Complete todos los campos"
    /\ last.arg.no_revision_ids
    /\ documents # <<>>

\* C14: a send to a recipient_org_id that is no organization's id is
\* refused, so every transmittal's recipient and every document's owning
\* organization is an existing organization.
C14_RecipientIsAnOrganization ==
    /\ \A t \in DOMAIN transmittals : transmittals[t].recipient_org_id \in OrgIds
    /\ \A d \in DocIds : documents[d].org_id \in OrgIds

\* the organization that owns the document of revision r
OwnerOf(r) == documents[document_revisions[r].document_id].org_id

\* C15: every revision linked to a transmittal belongs to a document owned
\* by the transmittal's sender organization.
C15_LinkedRevisionsBelongToSender ==
    \A l \in DOMAIN transmittal_documents :
        LET link == transmittal_documents[l]
        IN OwnerOf(link.revision_id) = transmittals[link.transmittal_id].sender_org_id

\* C16: no transmittal has its sender as its recipient, and a send never
\* appends the copy of a revision to the document the revision belongs to.
C16_RecipientDiffersFromSender ==
    /\ \A t \in DOMAIN transmittals :
          transmittals[t].recipient_org_id # transmittals[t].sender_org_id
    /\ \A r \in RevIds, q \in RevIds :
          (/\ q < r
           /\ \E t \in DOMAIN transmittals :
                 /\ document_revisions[r].uploaded_at = transmittals[t].created_at
                 /\ \E l \in DOMAIN transmittal_documents :
                       /\ transmittal_documents[l].transmittal_id = t
                       /\ transmittal_documents[l].revision_id = q
                 /\ document_revisions[r].file_path = document_revisions[q].file_path)
          => document_revisions[r].document_id # document_revisions[q].document_id

\* ids of the events the step appended
NewEvents == (Len(events) + 1)..Len(events')

\* C17: a send that returns appends, for each revision id of its list,
\* exactly one Sent event with that revision id; the event is on the
\* revision's owning document, by the transmittal's creator, and its note
\* names the transmittal number and the recipient organization.
C17_OneSentEventPerRevision ==
    [][Returned(last', "create_transmittal") =>
          LET arg == last'.arg
          IN \A k \in DOMAIN arg.document_revision_ids :
                LET r == arg.document_revision_ids[k]
                    sent == {e \in NewEvents :
                                /\ events'[e].event_type = "Sent"
                                /\ events'[e].revision_id = r}
                IN /\ Cardinality(sent) = 1
                   /\ \A e \in sent :
                         /\ events'[e].document_id = document_revisions'[r].document_id
                         /\ events'[e].user_id = arg.created_by
                         /\ events'[e].notes =
                              <<"Transmittal", arg.transmittal_number,
                                "sent to org", arg.recipient_org_id>>]_vars

\* a send of two revisions of two documents, both in the ledger before the
\* send, has just logged its Sent events
C17_Witness ==
    /\ SentN(last, 2)
    /\ LET ids == last.arg.document_revision_ids
       IN /\ ids[1] <= Len(document_revisions) - 2
          /\ ids[2] <= Len(document_revisions) - 2
          /\ document_revisions[ids[1]].document_id
               # document_revisions[ids[2]].document_id
          /\ Len(events) >= 2
          /\ events[Len(events)].event_type = "Sent"
          /\ events[Len(events) - 1].event_type = "Sent"

\* C18: the events a returning send appends are the Sent events of its
\* revision ids and nothing else: as many events as ids, each of type Sent
\* and about an id of the list, and earlier events stay as they were; the
\* document created or extended in the recipient's register gets no
\* Uploaded, RevisionUploaded or Received event.
C18_SendLogsOnlySentEvents ==
    [][Returned(last', "create_transmittal") =>
          LET ids == last'.arg.document_revision_ids
          IN /\ Len(events') = Len(events) + Len(ids)
             /\ SubSeq(events', 1, Len(events)) = events
             /\ \A e \in NewEvents :
                   /\ events'[e].event_type = "Sent"
                   /\ \E k \in DOMAIN ids : events'[e].revision_id = ids[k]]_vars

\* a send has just created a document in the recipient's register and that
\* document has no event at all
C18_Witness ==
    /\ Returned(last, "create_transmittal")
    /\ \E d \in DocIds :
          /\ CreatedBySend(d, last.result)
          /\ RevIdsOf(d) # {}
          /\ \A e \in DOMAIN events : events[e].document_id # d

\* C19: a send that returns has inserted exactly one transmittal, carrying
\* the number, description, sender, recipient and creator given, and one
\* link per id of its list, in list order, so that the revisions linked to
\* it are exactly the ids given; a list that names an id twice never
\* returns, and transmittal_documents never holds a pair twice.
C19_OneTransmittalLinkedToItsInput ==
    [][/\ Returned(last', "create_transmittal") =>
             LET arg == last'.arg
                 ids == arg.document_revision_ids
                 t == last'.result
                 n == Len(transmittal_documents)
             IN /\ Len(transmittals') = Len(transmittals) + 1
                /\ SubSeq(transmittals', 1, Len(transmittals)) = transmittals
                /\ t = Len(transmittals')
                /\ transmittals'[t].transmittal_number = arg.transmittal_number
                /\ transmittals'[t].description = arg.description
                /\ transmittals'[t].sender_org_id = arg.sender_org_id
                /\ transmittals'[t].recipient_org_id = arg.recipient_org_id
                /\ transmittals'[t].created_by = arg.created_by
                /\ Len(transmittal_documents') = n + Len(ids)
                /\ \A k \in DOMAIN ids :
                      /\ transmittal_documents'[n + k].transmittal_id = t
                      /\ transmittal_documents'[n + k].revision_id = ids[k]
                /\ \A j, k \in DOMAIN ids : j # k => ids[j] # ids[k]
       /\ \A i, j \in DOMAIN transmittal_documents' :
             i # j => transmittal_documents'[i] # transmittal_documents'[j]]_vars

\* a send whose list names an id twice has just been refused by the primary
\* key of transmittal_documents, after it had handled the first occurrence
C19_Witness ==
    /\ Raised(last, "create_transmittal")
    /\ last.error = "IntegrityError"
    /\ last.processed >= 1

\* C20: of two uploads for the same (doc_number, org_id, project_id) served
\* side by side, each either creates the document or appends a revision to
\* it; none fails because the other created the document between its lookup
\* and its insert.  (No send has run, so only an upload can have taken the
\* key.)
C20_ConcurrentUploadsBothSucceed ==
    ~(/\ Raised(last, "create_document")
      /\ transmittals = <<>>)

----------------------------------------------------------------------------
(* C22: the Revision Ledger and the Event Log are append-only.  Every step *)
(* keeps each committed revision and each committed event at its id with   *)
(* all its fields; create_document, add_document_revision and              *)
(* create_transmittal only add rows behind them.                           *)
C22_LedgerAndLogAppendOnly ==
    [][/\ Len(document_revisions') >= Len(document_revisions)
       /\ \A r \in RevIds : document_revisions'[r] = document_revisions[r]
       /\ Len(events') >= Len(events)
       /\ \A e \in DOMAIN events : events'[e] = events[e]]_vars

\* an upload, a further revision and a replicating send have all committed
\* on top of earlier revisions and events
C22_Witness ==
    /\ Returned(last, "create_transmittal")
    /\ last.processed >= 1
    /\ \E i \in DOMAIN history : IsCall(history[i], "add_document_revision")
    /\ \E i \in DOMAIN history : IsCall(history[i], "create_document")
    /\ Len(document_revisions) >= 3
    /\ Len(events) >= 3

----------------------------------------------------------------------------
(* C23: through the request handler a transmittal is created only for a    *)
(* caller whose role is superadmin or org_admin, and with the caller's own *)
(* organization as the sender.  A step that adds a transmittal, a link, a  *)
(* Sent event or a replicated revision is a create_transmittal call whose  *)
(* created_by has one of the two roles; every transmittal, link and Sent   *)
(* event in the database goes back to such a creator, never to a caller    *)
(* with role user.                                                         *)
SentEvents(evs) == {e \in DOMAIN evs : evs[e].event_type = "Sent"}

C23_StepBySender ==
    (\/ transmittals' # transmittals
     \/ transmittal_documents' # transmittal_documents
     \/ SentEvents(events') # SentEvents(events)
     \/ (IsCall(last', "create_transmittal") /\ last' # last
            /\ Len(document_revisions') > Len(document_revisions)))
    => /\ Returned(last', "create_transmittal")
       /\ Len(transmittals') = Len(transmittals) + 1
       /\ users[last'.arg.created_by].role \in {"superadmin", "org_admin"}
       /\ users[last'.arg.created_by].role # "user"
       /\ transmittals'[Len(transmittals')].created_by = last'.arg.created_by
       /\ transmittals'[Len(transmittals')].sender_org_id
              = users[last'.arg.created_by].org_id
       /\ \A e \in SentEvents(events') \ SentEvents(events) :
              events'[e].user_id = last'.arg.created_by

C23_SendNeedsSenderRole ==
    /\ [][C23_StepBySender]_vars
    /\ [](\A t \in DOMAIN transmittals :
              /\ transmittals[t].created_by \in DOMAIN users
              /\ users[transmittals[t].created_by].role
                     \in {"superadmin", "org_admin"}
              /\ transmittals[t].sender_org_id
                     = users[transmittals[t].created_by].org_id)
    /\ [](\A l \in DOMAIN transmittal_documents :
              transmittal_documents[l].transmittal_id \in DOMAIN transmittals)
    /\ [](\A e \in SentEvents(events) :
              users[events[e].user_id].role \in {"superadmin", "org_admin"})

\* the organization administrator has sent a revision: a transmittal, a
\* link, a Sent event and a replicated revision exist
C23_Witness ==
    /\ Returned(last, "create_transmittal")
    /\ users[last.arg.created_by].role = "org_admin"
    /\ last.processed >= 1
    /\ Len(transmittal_documents) >= 1
    /\ SentEvents(events) # {}

----------------------------------------------------------------------------
(* C26: a send processes its revisions in the order of its list.  When a   *)
(* send of several revisions that exist before the call, all of documents  *)
(* with one doc_number and one project, returns, the recipient's document  *)
(* with that identity receives one copy per list entry, appended in list   *)
(* order, and its current revision is the copy of the last entry, whatever *)
(* the order of the ids, of the labels or of the uploads.                  *)
C26_SameTarget(ids) ==
    /\ Len(ids) >= 2
    /\ \A i \in DOMAIN ids :
          /\ ids[i] \in RevIds
          /\ document_revisions[ids[i]].document_id \in DocIds
    /\ \A i, j \in DOMAIN ids :
          LET a == documents[document_revisions[ids[i]].document_id]
              b == documents[document_revisions[ids[j]].document_id]
          IN a.doc_number = b.doc_number /\ a.project_id = b.project_id

C26_SendKeepsInputOrder ==
    [][(Returned(last', "create_transmittal") /\ last' # last
          /\ C26_SameTarget(last'.arg.document_revision_ids))
       => LET ids == last'.arg.document_revision_ids
              m == Len(document_revisions)
              src == documents[document_revisions[ids[1]].document_id]
              target == CHOOSE d \in DOMAIN documents' :
                           /\ documents'[d].doc_number = src.doc_number
                           /\ documents'[d].project_id = src.project_id
                           /\ documents'[d].org_id = last'.arg.recipient_org_id
          IN /\ Len(document_revisions') = m + Len(ids)
             /\ \A i \in DOMAIN ids :
                   /\ document_revisions'[m + i].document_id = target
                   /\ document_revisions'[m + i].revision
                          = document_revisions[ids[i]].revision
                   /\ document_revisions'[m + i].file_path
                          = document_revisions[ids[i]].file_path
             /\ documents'[target].current_revision_id = m + Len(ids)
             /\ document_revisions'[documents'[target].current_revision_id].file_path
                    = document_revisions[ids[Len(ids)]].file_path]_vars

\* a send listed the newer revision of a document before the older one,
\* the two carrying different labels, and returned
C26_Witness ==
    /\ Returned(last, "create_transmittal")
    /\ last.processed = 2
    /\ LET ids == last.arg.document_revision_ids
       IN /\ Len(ids) = 2
          /\ ids[1] > ids[2]
          /\ ids[1] <= Len(document_revisions) - 2
          /\ document_revisions[ids[1]].document_id
                 = document_revisions[ids[2]].document_id
          /\ document_revisions[ids[1]].document_id \in DocIds
          /\ document_revisions[ids[1]].revision
                 # document_revisions[ids[2]].revision
          /\ documents[document_revisions[ids[1]].document_id].org_id
                 # last.arg.recipient_org_id

----------------------------------------------------------------------------
(* C27: a send touches the recipient's documents only.  When a send to an  *)
(* organization other than the sender's, of revisions that exist before    *)
(* the call and belong to documents of the sender, returns, every document *)
(* of an organization other than the recipient keeps its fields, its       *)
(* revisions and its current revision; every document and revision added   *)
(* is the recipient's, and the only rows added on the sender's documents   *)
(* are Sent events.                                                        *)
C27_SenderOwned(arg) ==
    /\ arg.recipient_org_id # arg.sender_org_id
    /\ \A i \in DOMAIN arg.document_revision_ids :
          LET r == arg.document_revision_ids[i]
          IN /\ r \in RevIds
             /\ document_revisions[r].document_id \in DocIds
             /\ OwnerOf(r) = arg.sender_org_id

C27_SendLeavesOthersUnchanged ==
    [][(Returned(last', "create_transmittal") /\ last' # last
          /\ C27_SenderOwned(last'.arg))
       => LET arg == last'.arg
          IN /\ \A d \in DocIds :
                    documents[d].org_id # arg.recipient_org_id
                    => /\ documents'[d] = documents[d]
                       /\ {r \in DOMAIN document_revisions' :
                              document_revisions'[r].document_id = d}
                              = RevIdsOf(d)
             /\ \A d \in DOMAIN documents' \ DocIds :
                    documents'[d].org_id = arg.recipient_org_id
             /\ \A r \in DOMAIN document_revisions' \ RevIds :
                    /\ document_revisions'[r].document_id \in DOMAIN documents'
                    /\ documents'[document_revisions'[r].document_id].org_id
                           = arg.recipient_org_id
             /\ \A r \in RevIds : document_revisions'[r] = document_revisions[r]
             /\ \A e \in DOMAIN events : events'[e] = events[e]
             /\ \A e \in DOMAIN events' \ DOMAIN events :
                    /\ events'[e].event_type = "Sent"
                    /\ events'[e].document_id \in DocIds
                    /\ documents[events'[e].document_id].org_id
                           = arg.sender_org_id]_vars

\* a send of a sender-owned revision has returned while the recipient
\* already held a document with the same number, and the sender's document
\* is still there with its own revisions
C27_Witness ==
    /\ Returned(last, "create_transmittal")
    /\ last.processed >= 1
    /\ last.arg.recipient_org_id # last.arg.sender_org_id
    /\ LET r == last.arg.document_revision_ids[1]
       IN /\ r <= Len(document_revisions) - last.processed
          /\ document_revisions[r].document_id \in DocIds
          /\ OwnerOf(r) = last.arg.sender_org_id
          /\ \E d \in DocIds :
                /\ documents[d].org_id = last.arg.recipient_org_id
                /\ documents[d].created_at < transmittals[last.result].created_at
                /\ documents[d].doc_number
                       = documents[document_revisions[r].document_id].doc_number

----------------------------------------------------------------------------
(* C28: tenancy consistency.  Every document's project_id names a project  *)
(* that exists and is owned by the document's own organization, whether an *)
(* upload or a send created the document; list_documents shows a document  *)
(* only under that condition.                                              *)
C28_DocumentInOwnProject ==
    \A d \in DocIds :
        \E p \in get_project(documents[d].project_id) :
            p.org_id = documents[d].org_id

----------------------------------------------------------------------------
(* C24: transmittal_number is no uniqueness key.  A send that returned can *)
(* be repeated with the same arguments and returns again; the repeat adds  *)
(* a second transmittal record with the same number and another id, a      *)
(* further Sent event on the source document of every revision of its      *)
(* list, and a further copy of every such revision on the recipient's      *)
(* document.                                                               *)
C24_IsRepeat(call) ==
    /\ Returned(call, "create_transmittal")
    /\ call.arg.document_revision_ids # <<>>
    /\ \E i \in DOMAIN history :
          /\ IsCall(history[i], "create_transmittal")
          /\ history[i].arg = call.arg

C24_SentEventsOf(evs, r) ==
    {e \in DOMAIN evs : evs[e].event_type = "Sent" /\ evs[e].revision_id = r}

C24_RepeatAddsSecondRecord ==
    LET arg == last'.arg
        ids == arg.document_revision_ids
        first == CHOOSE i \in DOMAIN history :
                    /\ IsCall(history[i], "create_transmittal")
                    /\ history[i].arg = arg
        t1 == history[first].result
        t2 == last'.result
        m == Len(document_revisions)
    IN /\ Len(transmittals') = Len(transmittals) + 1
       /\ t2 = Len(transmittals')
       /\ t1 \in DOMAIN transmittals
       /\ t1 # t2
       /\ transmittals'[t1] = transmittals[t1]
       /\ transmittals'[t1].transmittal_number = arg.transmittal_number
       /\ transmittals'[t2].transmittal_number = arg.transmittal_number
       /\ \A i \in DOMAIN ids :
             LET r == ids[i]
                 source == document_revisions[r].document_id
                 copy == document_revisions'[m + i]
             IN /\ Cardinality(C24_SentEventsOf(events', r))
                       = Cardinality(C24_SentEventsOf(events, r)) + 1
                /\ Cardinality(C24_SentEventsOf(events', r)) >= 2
                /\ \A e \in C24_SentEventsOf(events', r) :
                       events'[e].document_id = source
                /\ copy.revision = document_revisions[r].revision
                /\ copy.file_path = document_revisions[r].file_path
                /\ documents'[copy.document_id].org_id = arg.recipient_org_id
                /\ documents'[copy.document_id].doc_number
                       = documents[source].doc_number
                /\ \E c \in RevIds \ {r} :
                       /\ document_revisions[c].document_id = copy.document_id
                       /\ document_revisions[c].revision = copy.revision
                       /\ document_revisions[c].file_path = copy.file_path

C24_TransmittalNumberNotUnique ==
    /\ [](\A i \in DOMAIN history :
             IsCall(history[i], "create_transmittal")
             => create_transmittal(DB, clock,
                    history[i].arg.transmittal_number,
                    history[i].arg.description,
                    history[i].arg.sender_org_id,
                    history[i].arg.recipient_org_id,
                    history[i].arg.document_revision_ids,
                    history[i].arg.created_by).ok)
    /\ [][(C24_IsRepeat(last') /\ last' # last) => C24_RepeatAddsSecondRecord]_vars

\* the send of a revision to the other organization has returned twice with
\* the same arguments: two transmittals carry the same number
C24_Witness ==
    /\ Len(history) >= 3
    /\ Returned(last, "create_transmittal")
    /\ last.processed >= 1
    /\ last.arg.recipient_org_id # last.arg.sender_org_id
    /\ \E i \in 1..(Len(history) - 1) :
          /\ IsCall(history[i], "create_transmittal")
          /\ history[i].arg = last.arg
    /\ Len(transmittals) = 2
    /\ transmittals[1].transmittal_number = transmittals[2].transmittal_number

----------------------------------------------------------------------------
(* C21: concurrent writers to one document serialize, the last commit      *)
(* wins.  Whatever the interleaving of the statements of two               *)
(* add_document_revision calls (or of one and a replicating send), the     *)
(* content other connections read changes only at a commit, and then by    *)
(* the whole operation at once: the new revision behind all revisions      *)
(* committed before, the document's pointer on it, and its event.  So both *)
(* revisions are kept, the pointer names the revision of the operation     *)
(* that committed last, and it never names a revision that is not          *)
(* committed.                                                              *)
C21_CommitOfAddRevision ==
    LET d == last'.arg.document_id
        r == Len(document_revisions) + 1
    IN /\ last'.result = r
       /\ Len(document_revisions') = r
       /\ \A q \in RevIds : document_revisions'[q] = document_revisions[q]
       /\ document_revisions'[r].document_id = d
       /\ document_revisions'[r].file_path = last'.arg.file_path
       /\ documents' = [documents EXCEPT ![d].current_revision_id = r]
       /\ Len(events') = Len(events) + 1
       /\ \A e \in DOMAIN events : events'[e] = events[e]
       /\ events'[Len(events')].revision_id = r
       /\ events'[Len(events')].document_id = d
       /\ events'[Len(events')].event_type = "RevisionUploaded"
       /\ UNCHANGED <<transmittals, transmittal_documents>>

C21_CommitOfSend ==
    LET n == Len(last'.arg.document_revision_ids)
        m == Len(document_revisions)
    IN /\ Len(document_revisions') = m + n
       /\ \A q \in RevIds : document_revisions'[q] = document_revisions[q]
       /\ \A d \in DocIds :
             \/ documents'[d] = documents[d]
             \/ /\ documents'[d].current_revision_id \in (m + 1)..(m + n)
                /\ document_revisions'[documents'[d].current_revision_id].document_id = d
       /\ Len(events') = Len(events) + n
       /\ \A e \in DOMAIN events : events'[e] = events[e]

C21_PointerOnLastCommitted ==
    \A d \in DocIds :
        /\ documents[d].current_revision_id \in RevIds
        /\ document_revisions[documents[d].current_revision_id].document_id = d
        /\ \A r \in RevIdsOf(d) : r <= documents[d].current_revision_id

C21_WritersSerialize ==
    /\ [][tables' # tables
            => /\ last' # last
               /\ last'.ok
               /\ last'.op \in {"create_document", "add_document_revision",
                                "create_transmittal"}
               /\ Returned(last', "add_document_revision")
                      => C21_CommitOfAddRevision
               /\ Returned(last', "create_transmittal")
                      => C21_CommitOfSend]_vars
    /\ []C21_PointerOnLastCommitted

\* two add_document_revision calls on one document were under way at the
\* same time (both read the clock before either committed) and both have
\* committed: both revisions are there and the pointer is on the later one
C21_Witness ==
    /\ Returned(last, "add_document_revision")
    /\ \A u \in Uploaders : uploads[u].pc = "idle"
    /\ \E r1, r2 \in RevIds :
          /\ r1 < r2
          /\ r2 = last.result
          /\ document_revisions[r1].document_id = document_revisions[r2].document_id
          /\ document_revisions[r1].uploaded_at = document_revisions[r2].uploaded_at
          /\ document_revisions[r1].uploaded_by # document_revisions[r2].uploaded_by
          /\ \E i \in DOMAIN history :
                /\ IsCall(history[i], "add_document_revision")
                /\ history[i].result = r1
          /\ documents[document_revisions[r2].document_id].current_revision_id = r2

----------------------------------------------------------------------------
(* C25: organization names and user emails are unique.  A request to       *)
(* create an organization under a name an organization already has, or a   *)
(* user under an email a user already has, is refused and leaves           *)
(* organizations, users and sessions as they were; when the caller passes  *)
(* the role check the refusal is the conflict message of the handler.  No  *)
(* two organizations share a name and no two users share an email.         *)
C25_NameTaken(name) == \E o \in DOMAIN organizations : organizations[o].name = name
C25_EmailTaken(email) == \E i \in DOMAIN users : users[i].email = email

C25_DuplicateRefused ==
    /\ (IsCall(last', "create_organization_action") /\ last' # last
           /\ C25_NameTaken(last'.arg.name))
       => /\ ~last'.ok
          /\ UNCHANGED identity
          /\ users[last'.arg.caller].role = "superadmin"
                 => last'.error = "Nombre de organización ya existe"
    /\ (IsCall(last', "create_user_action") /\ last' # last
           /\ C25_EmailTaken(last'.arg.email))
       => /\ ~last'.ok
          /\ UNCHANGED identity
          /\ users[last'.arg.caller].role = "superadmin"
                 => last'.error
                        = "No se pudo crear el usuario. Puede que el email ya exista."

C25_NamesAndEmailsUnique ==
    /\ [][C25_DuplicateRefused]_vars
    /\ [](\A a, b \in DOMAIN organizations :
              organizations[a].name = organizations[b].name => a = b)
    /\ [](\A a, b \in DOMAIN users : users[a].email = users[b].email => a = b)

\* the superadmin asked for a second organization "B" after the first was
\* created, and was refused with the conflict message
C25_Witness ==
    /\ IsCall(last, "create_organization_action")
    /\ last.error = "Nombre de organización ya existe"
    /\ last.arg.name = "B"
    /\ Len(organizations) = 3
    /\ Len(users) > 3

----------------------------------------------------------------------------
(* C29: no role escalation through user creation.  Every step that changes *)
(* the table users is a create_user_action that adds one user with role    *)
(* org_admin or user; the caller is a superadmin, or an org_admin who adds *)
(* a user with role user to its own organization; a caller with role user  *)
(* adds nobody.  The superadmins are the ones of the initial state.        *)
C29_UserAddedByAdmin ==
    users' # users
    => LET caller == users[last'.arg.caller]
           new == users'[Len(users')]
       IN /\ Returned(last', "create_user_action")
          /\ Len(users') = Len(users) + 1
          /\ \A i \in DOMAIN users : users'[i] = users[i]
          /\ new.role \in {"org_admin", "user"}
          /\ caller.role \in {"superadmin", "org_admin"}
          /\ caller.role = "org_admin"
                 => new.org_id = caller.org_id /\ new.role = "user"

C29_NoRoleEscalation ==
    /\ [][C29_UserAddedByAdmin]_vars
    /\ []({i \in DOMAIN users : users[i].role = "superadmin"} = {1})

\* an organization administrator the superadmin created has itself added
\* a user, asking for the role superadmin and getting the role user
C29_Witness ==
    /\ Returned(last, "create_user_action")
    /\ last.arg.caller > 3
    /\ users[last.arg.caller].role = "org_admin"
    /\ last.arg.role_field = "superadmin"
    /\ users[last.result].role = "user"
    /\ users[last.result].org_id = users[last.arg.caller].org_id

----------------------------------------------------------------------------
(* C30: a session id authenticates a request only while its session record *)
(* exists, has not expired and names an existing user; the user returned   *)
(* is the session's.  Once a logout has deleted the session, or an         *)
(* authenticated route has found it expired, its id authenticates no later *)
(* request.                                                                *)
C30_Authenticated == Returned(last', "get_current_user") /\ last' # last

C30_SessionLifetime ==
    /\ [][C30_Authenticated
            => \E s \in sessions :
                  /\ s.id = last'.arg.session_id
                  /\ s.expires_at >= clock
                  /\ s.user_id \in DOMAIN users
                  /\ last'.result = s.user_id]_vars
    /\ [][C30_Authenticated => last'.arg.session_id \notin Deleted]_vars
    /\ [][\A id \in Deleted : id \in Deleted']_vars

\* a session that was logged out before it expired is presented again and
\* the request is sent to the login page
C30_Witness ==
    /\ IsCall(last, "get_current_user")
    /\ ~last.ok
    /\ last.arg.session_id \in Deleted
    /\ \E i \in DOMAIN history :
          /\ history[i].op = "delete_session"
          /\ history[i].arg.session_id = last.arg.session_id
          /\ history[i].arg.by = "logout"
    /\ \E i \in DOMAIN history :
          /\ history[i].op = "create_session"
          /\ history[i].result = last.arg.session_id
          /\ history[i].arg.at + expires_minutes >= clock

----------------------------------------------------------------------------
(* C31: authorization of uploads.  An upload request for organization O by *)
(* a caller who is no superadmin and belongs to another organization is    *)
(* answered 403 and leaves every table as it was.  A step that adds a      *)
(* document, a revision or an event is an upload by a superadmin or by a   *)
(* user of the organization that owns the document, or it is a send.       *)
C31_RejectedUpload ==
    (IsCall(last', "upload_document_action") /\ last' # last)
    => /\ ~last'.ok
       /\ last'.error = "403"
       /\ users[last'.arg.caller].role # "superadmin"
       /\ users[last'.arg.caller].org_id # last'.arg.org_id
       /\ UNCHANGED tables

C31_UploadByOwnUser ==
    (\/ documents' # documents
     \/ document_revisions' # document_revisions
     \/ events' # events)
    => \/ Returned(last', "create_transmittal")
       \/ /\ Returned(last', "create_document")
          /\ Len(documents') = Len(documents) + 1
          /\ Len(document_revisions') = Len(document_revisions) + 1
          /\ LET u == users[last'.arg.uploaded_by]
                 d == documents'[Len(documents')]
             IN /\ d.org_id = last'.arg.org_id
                /\ document_revisions'[Len(document_revisions')].document_id = d.id
                /\ u.role = "superadmin" \/ u.org_id = d.org_id
       \/ /\ Returned(last', "add_document_revision")
          /\ Len(documents') = Len(documents)
          /\ Len(document_revisions') = Len(document_revisions) + 1
          /\ LET u == users[last'.arg.uploaded_by]
                 r == document_revisions'[Len(document_revisions')]
             IN /\ r.document_id = last'.arg.document_id
                /\ r.document_id \in DocIds
                /\ u.role = "superadmin" \/ u.org_id = documents[r.document_id].org_id

C31_UploadNeedsOwnOrganization ==
    /\ [][C31_RejectedUpload]_vars
    /\ [][C31_UploadByOwnUser]_vars

\* the administrator of organization 2 asked to upload into organization 1,
\* which already has a document, and was answered 403
C31_Witness ==
    /\ IsCall(last, "upload_document_action")
    /\ last.error = "403"
    /\ users[last.arg.caller].role = "org_admin"
    /\ last.arg.org_id # users[last.arg.caller].org_id
    /\ \E d \in DocIds : documents[d].org_id = last.arg.org_id

====
